---------------------------- MODULE Spec2Model ----------------------------
(***************************************************************************)
(* A model of cxx-tree (src/tree.cc): main validates the root, reads the   *)
(* depth bound, prints the root line, runs the recursive traverse and      *)
(* prints the summary.  The file system is a finite forest of nodes that   *)
(* stays fixed during a run; every probe of std::filesystem is an operator *)
(* that returns its answer together with the error code it leaves in the   *)
(* shared std::error_code cell.                                            *)
(***************************************************************************)
EXTENDS Integers, Sequences, FiniteSets

VARIABLES fs, pc, status, max_depth, total_directories, total_files, err,
          stack, out, errout, calls, handles, peak

vars == <<fs, pc, status, max_depth, total_directories, total_files, err,
          stack, out, errout, calls, handles, peak>>

(* ------------------------------ bounds --------------------------------- *)

\* Nodes are 0..MaxNode; node 0 is the path given on the command line.
MaxNode == 3

\* The values std::atoi(argv[2]) is drawn from are -1..MaxDepthArg.
MaxDepthArg == 2

Nodes == 0..MaxNode

\* The target of a symlink that names no existing path; also the empty
\* string that stands for "no path" in a rendered line.
NoPath == MaxNode + 1

(* --------------------------- the file system --------------------------- *)

Kinds == {"dir", "file", "link", "none"}

\* Node n of file system f and the directories above it, up to the root.
RECURSIVE PathTo(_, _)
PathTo(f, n) == IF n = 0 THEN {0} ELSE {n} \cup PathTo(f, f.parent[n])

\* What the symlink at node n may name: the root (a directory above it),
\* itself, the node numbered before it, or no existing path.
Targets(n) == {0, n, n - 1, NoPath}

\* A file system: kind "none" is an absent node.  Absent nodes form a
\* suffix of the node numbers; the present nodes are numbered in the order
\* a depth-first walk meets them, so every node other than the root lies in
\* a real directory on the path to the node numbered before it, and the
\* entries of a directory are listed in the order of their numbers.  Only
\* directories carry a mode, only symlinks carry a target.
WellFormed(f) ==
    /\ f.parent[0] = 0
    /\ f.kind[0] # "link"
    /\ \A n \in Nodes \ {0} :
          IF f.kind[n] = "none"
            THEN /\ f.parent[n] = 0
                 /\ \A m \in Nodes : m > n => f.kind[m] = "none"
            ELSE /\ f.parent[n] \in PathTo(f, n - 1)
                 /\ f.kind[f.parent[n]] = "dir"
    /\ \A n \in Nodes :
          /\ f.kind[n] # "dir" => ~f.denied[n]
          /\ f.kind[n] # "link" => f.target[n] = 0
          /\ f.kind[n] = "link" => f.target[n] \in Targets(n)

\* The file system that holds the root alone.
RootOnly(k, d) ==
    [kind |-> [n \in Nodes |-> IF n = 0 THEN k ELSE "none"],
     parent |-> [n \in Nodes |-> 0],
     denied |-> [n \in Nodes |-> n = 0 /\ d],
     target |-> [n \in Nodes |-> 0]]

\* f with node n added as a k inside directory p.
AddNode(f, n, p, k, d) ==
    [f EXCEPT !.kind[n] = k, !.parent[n] = p, !.denied[n] = d]

\* The file systems of nodes 0..n-1 in F, each extended by node n in every
\* way, and so on up to MaxNode.
RECURSIVE Grow(_, _)
Grow(F, n) ==
    IF n > MaxNode THEN F
    ELSE LET full == {f \in F : f.kind[n - 1] # "none"}
             ways(f) == UNION {
                 {AddNode(f, n, p, "file", FALSE), AddNode(f, n, p, "link", FALSE),
                  AddNode(f, n, p, "dir", FALSE), AddNode(f, n, p, "dir", TRUE)} :
                 p \in {q \in PathTo(f, n - 1) : f.kind[q] = "dir"} }
             more == UNION {ways(f) : f \in full}
         IN  Grow(F \cup more, n + 1)

\* Every symlink of f given a target.
WithTargets(f) ==
    LET links == {n \in Nodes : f.kind[n] = "link"}
        choice == {t \in [links -> 0..NoPath] : \A n \in links : t[n] \in Targets(n)}
    IN  {[f EXCEPT !.target = [n \in Nodes |-> IF n \in links THEN t[n] ELSE 0]] :
           t \in choice}

FileSystems ==
    UNION {WithTargets(f) :
             f \in Grow({RootOnly("none", FALSE), RootOnly("file", FALSE),
                         RootOnly("dir", FALSE), RootOnly("dir", TRUE)}, 1)}

\* The entries a successful listing of directory d yields, in listing
\* order (the order of the node numbers).
RECURSIVE EntriesFrom(_, _)
EntriesFrom(d, n) ==
    IF n > MaxNode THEN <<>>
    ELSE IF fs.kind[n] # "none" /\ fs.parent[n] = d /\ n # 0
           THEN <<n>> \o EntriesFrom(d, n + 1)
           ELSE EntriesFrom(d, n + 1)

Entries(d) == EntriesFrom(d, 1)

\* Every directory on the way from the root down to n (n excluded) can be
\* searched: a directory without permissions hides what lies below it.
RECURSIVE Searchable(_)
Searchable(n) ==
    IF n = 0 THEN TRUE
    ELSE ~fs.denied[fs.parent[n]] /\ Searchable(fs.parent[n])

\* lstat(2): the node itself.
Lstat(n) ==
    IF n = NoPath \/ fs.kind[n] = "none" THEN [err |-> "ENOENT", node |-> NoPath]
    ELSE IF ~Searchable(n) THEN [err |-> "EACCES", node |-> NoPath]
    ELSE [err |-> "OK", node |-> n]

\* stat(2): the node after following symlinks, at most `fuel' of them.
RECURSIVE Resolve(_, _)
Resolve(n, fuel) ==
    LET l == Lstat(n) IN
    IF l.err # "OK" THEN l
    ELSE IF fs.kind[n] # "link" THEN l
    ELSE IF fuel = 0 THEN [err |-> "ELOOP", node |-> NoPath]
    ELSE Resolve(fs.target[n], fuel - 1)

Stat(n) == Resolve(n, MaxNode + 1)

\* fs::exists(p, ec)
exists(n) ==
    LET s == Stat(n) IN [value |-> s.err = "OK", err |-> s.err]

\* fs::is_directory(p, ec): false whenever the probe fails.
\* (Faulty variant: classifies the entry itself, as symlink_status would,
\* without following a symlink.)
is_directory_of_entry_itself(n) ==
    LET l == Lstat(n) IN
    [value |-> l.err = "OK" /\ fs.kind[n] = "dir", err |-> l.err]

\* fs::is_directory(p, ec) follows symlinks.
is_directory(n) ==
    LET s == Stat(n) IN
    [value |-> s.err = "OK" /\ fs.kind[s.node] = "dir", err |-> s.err]

\* fs::is_symlink(p, ec)
is_symlink(n) ==
    LET l == Lstat(n) IN
    [value |-> l.err = "OK" /\ fs.kind[n] = "link", err |-> l.err]

\* fs::canonical(p, ec): the resolved path, empty when resolution fails.
canonical(n) ==
    LET s == Stat(n) IN [value |-> s.node, err |-> s.err]

\* fs::directory_iterator(p, ec): the entries it will yield and the error
\* it leaves; `opened' tells whether opendir(3) produced a handle.
directory_iterator(n) ==
    LET s == Stat(n) IN
    IF s.err # "OK" THEN [entries |-> <<>>, err |-> s.err, opened |-> FALSE]
    ELSE IF fs.kind[s.node] # "dir"
           THEN [entries |-> <<>>, err |-> "ENOTDIR", opened |-> FALSE]
    ELSE IF fs.denied[s.node]
           THEN [entries |-> <<>>, err |-> "EACCES", opened |-> FALSE]
    ELSE [entries |-> Entries(s.node), err |-> "OK", opened |-> TRUE]

(* ------------------------------ Counter -------------------------------- *)

\* std::count_if over a listing: the number of entries whose
\* is_directory probe answers `want', and the error the last probe leaves
\* (the error e of opening the listing when there is no entry).
CountIf(es, want, e) ==
    [n |-> Cardinality({i \in 1..Len(es) : is_directory(es[i]).value = want}),
     err |-> IF es = <<>> THEN e ELSE is_directory(es[Len(es)]).err]

number_of_directories_in_directory(d) ==
    LET it == directory_iterator(d) IN CountIf(it.entries, TRUE, it.err)

\* (Faulty variant: counts only the entries whose probe succeeds.)
number_of_regular_files_in_directory(d) ==
    LET it == directory_iterator(d)
        ok == SelectSeq(it.entries, LAMBDA c : is_directory(c).err = "OK")
    IN  CountIf(ok, FALSE, it.err)

number_of_files_in_directory(d) ==
    LET it == directory_iterator(d) IN CountIf(it.entries, FALSE, it.err)

\* Lines 64-65 and 78: the two counts of a directory, then the listing the
\* range-for iterator is opened on and the error that opening leaves.
Counts(d) ==
    [n_directories |-> number_of_directories_in_directory(d).n,
     n_files |-> number_of_files_in_directory(d).n,
     listing |-> directory_iterator(d).entries,
     opened |-> directory_iterator(d).opened,
     err |-> directory_iterator(d).err]

(* ------------------------------- glyphs -------------------------------- *)

LastBranch == "+--"
MidBranch == "|--"
BlankSeg == "    "
BarSeg == "|   "

(* ------------------------------- Walker -------------------------------- *)

\* The activation record of one traverse call.  listing holds the entries
\* the range-for iterator of line 78 yields and pos its position among them
\* (0: at end); open tells whether the iterator holds a listing handle;
\* phase is "begin" before line 64, "loop" at the head of the loop body,
\* "call" while a recursive call is active, "end" after the loop.
Frame(d, level, segment) ==
    [directory |-> d, level |-> level, segment |-> segment,
     n_directories |-> 0, n_files |-> 0, entries_count |-> 0,
     listing |-> <<>>, pos |-> 0, open |-> FALSE, phase |-> "begin"]

Top == stack[Len(stack)]

SetTop(f) == [stack EXCEPT ![Len(stack)] = f]

OpenCount(s) == Cardinality({i \in 1..Len(s) : s[i].open})

Max(a, b) == IF a > b THEN a ELSE b

\* ++it of the range-for: the next entry, or the end of the listing, where
\* the iterator gives up its handle.
Advance(f) ==
    IF f.pos < Len(f.listing)
      THEN [f EXCEPT !.pos = f.pos + 1, !.phase = "loop"]
      ELSE [f EXCEPT !.pos = 0, !.open = FALSE, !.phase = "end"]

\* Lines 89-100: the dry run on a directory entry and the error cell after
\* the probes of lines 80-96.
\* (Faulty variant: no dry run.)
ErrWithoutDryRun(entry) ==
    LET sym == is_symlink(entry)
    IN  IF sym.value THEN canonical(entry).err ELSE sym.err

ErrAfterProbes(entry) ==
    LET sym == is_symlink(entry)
        e84 == IF sym.value THEN canonical(entry).err ELSE sym.err
    IN  IF is_directory(entry).value
          THEN directory_iterator(entry).err
          ELSE e84

\* Lines 80-100: what the loop body learns about the entry; dry tells
\* whether the dry run opened a listing handle for a moment.
Probes(entry) ==
    [entry |-> entry,
     is_directory |-> is_directory(entry).value,
     is_symlink |-> is_symlink(entry).value,
     canonical_path |-> IF is_symlink(entry).value
                          THEN canonical(entry).value ELSE NoPath,
     err |-> ErrAfterProbes(entry),
     dry |-> is_directory(entry).value /\ directory_iterator(entry).opened]

\* Line 100.
access_denied(p) == p.err = "EACCES"

\* Lines 103-112.
Format(dir, sym, denied, level) ==
    IF sym
      THEN IF dir THEN "symlink_directory" ELSE "symlink_file"
      ELSE IF dir
             THEN IF denied /\ level # max_depth
                    THEN "access_denied" ELSE "directory"
             ELSE "file"

\* Lines 114-115: the entry is the last one when the running counter,
\* once incremented, reaches the two counts added up.
IsLastEntry(f) == f.entries_count + 1 = f.n_directories + f.n_files

\* Line 114.
Left(last) == IF last THEN LastBranch ELSE MidBranch

\* Line 115.
\* (Faulty variant: RightAlwaysBar ignores the position of the entry.)
RightAlwaysBar(last) == BarSeg

Right(last) == IF last THEN BlankSeg ELSE BarSeg

\* Lines 117-121: printf writes the fourth argument only where the format
\* has a fourth conversion.
Printf(format, segment, left, name, path, text) ==
    [format |-> format, segment |-> segment, left |-> left, name |-> name,
     target |-> IF format \in {"symlink_directory", "symlink_file"}
                  THEN path ELSE NoPath,
     marker |-> format = "access_denied" /\ text]

\* Line 126.  (Faulty variants: ShouldRecurseAtBound still recurses at the
\* bound, ShouldRecurseIntoLinks follows symlinks, ShouldRecurseUnbounded
\* ignores the bound.)
ShouldRecurseAtBound(dir, sym, denied, level) ==
    dir /\ ~sym /\ ~denied /\ level <= max_depth

ShouldRecurseIntoLinks(dir, sym, denied, level) ==
    dir /\ ~denied /\ level # max_depth

ShouldRecurseUnbounded(dir, sym, denied, level) ==
    dir /\ ~sym /\ ~denied

ShouldRecurse(dir, sym, denied, level) ==
    dir /\ ~sym /\ ~denied /\ level # max_depth

\* Line 128: the caller waits inside its loop body, its iterator alive,
\* while the callee runs with level + 1 and the segment extended.
\* (Faulty variant: CallClosingListing gives the handle up before the call.)
CallClosingListing(s, g, entry, right) ==
    Append([s EXCEPT ![Len(s)] = [g EXCEPT !.phase = "call", !.open = FALSE]],
           Frame(entry, 1 + g.level, Append(g.segment, right)))

Call(s, g, entry, right) ==
    Append([s EXCEPT ![Len(s)] = [g EXCEPT !.phase = "call"]],
           Frame(entry, 1 + g.level, Append(g.segment, right)))

\* Line 153.  (Faulty variant: NoClamp keeps values below 1.)
NoClamp(depth) == depth

Clamp(depth) == IF depth < 1 THEN 1 ELSE depth

(* -------------------------------- main --------------------------------- *)

Init ==
    /\ fs \in FileSystems
    /\ pc = "start"
    /\ status = "running"
    /\ max_depth = 1
    /\ total_directories = 0
    /\ total_files = 0
    /\ err = "OK"
    /\ stack = <<>>
    /\ out = <<>>
    /\ errout = <<>>
    /\ calls = <<>>
    /\ handles = 0
    /\ peak = 0

\* Lines 22-30: fatal writes one message to stderr and exits.
Fatal(msg) ==
    /\ errout' = Append(errout, msg)
    /\ status' = "failure"
    /\ pc' = "exit"

\* Lines 141-148.  (Faulty variant: ValidateExistsOnly lacks the test of
\* line 145.)
ValidateExistsOnly ==
    /\ pc = "start"
    /\ LET ex == exists(0)
       IN  IF ~ex.value
             THEN /\ Fatal("No such directory")
                  /\ err' = ex.err
             ELSE /\ pc' = "args"
                  /\ err' = ex.err
                  /\ UNCHANGED <<status, errout>>
    /\ UNCHANGED <<fs, max_depth, total_directories, total_files, stack, out,
                   calls, handles, peak>>

Validate ==
    /\ pc = "start"
    /\ LET ex == exists(0)
           isd == is_directory(0)
       IN  IF ~ex.value
             THEN /\ Fatal("No such directory")
                  /\ err' = ex.err
             ELSE IF ~isd.value
                    THEN /\ Fatal("Not a directory")
                         /\ err' = isd.err
                    ELSE /\ pc' = "args"
                         /\ err' = isd.err
                         /\ UNCHANGED <<status, errout>>
    /\ UNCHANGED <<fs, max_depth, total_directories, total_files, stack, out,
                   calls, handles, peak>>

\* Lines 150-154: the depth bound is read only when a second argument is
\* given, and values below 1 are clamped to 1.
ParseArgs ==
    /\ pc = "args"
    /\ \E argc \in 1..3, depth \in (-1)..MaxDepthArg :
          max_depth' = IF 3 <= argc
                         THEN Clamp(depth)
                         ELSE max_depth
    /\ pc' = "root"
    /\ UNCHANGED <<fs, status, total_directories, total_files, err, stack,
                   out, errout, calls, handles, peak>>

\* Lines 158-162: the root line, then the call traverse(directory, err).
PrintRoot ==
    /\ pc = "root"
    /\ out' = Append(out, [format |-> "root", segment |-> <<>>, left |-> "",
                           name |-> 0, target |-> NoPath, marker |-> FALSE])
    /\ stack' = <<Frame(0, 1, <<>>)>>
    /\ calls' = Append(calls, [directory |-> 0, level |-> 1])
    /\ pc' = "traverse"
    /\ UNCHANGED <<fs, status, max_depth, total_directories, total_files,
                   err, errout, handles, peak>>

\* Lines 64-78: the two counts, the totals, and the range-for iterator.
TraverseBegin ==
    /\ pc = "traverse"
    /\ stack # <<>>
    /\ Top.phase = "begin"
    /\ \E c \in {Counts(Top.directory)} :
          /\ total_directories' = total_directories + c.n_directories
          /\ total_files' = total_files + c.n_files
          /\ err' = c.err
          /\ stack' = SetTop([Top EXCEPT
                 !.n_directories = c.n_directories, !.n_files = c.n_files,
                 !.listing = c.listing,
                 !.pos = IF c.listing = <<>> THEN 0 ELSE 1,
                 !.open = c.listing # <<>>,
                 !.phase = IF c.listing = <<>> THEN "end" ELSE "loop"])
          /\ handles' = handles + (IF c.listing # <<>> THEN 1 ELSE 0)
          /\ peak' = Max(peak, handles + (IF c.opened THEN 1 ELSE 0))
    /\ UNCHANGED <<fs, pc, status, max_depth, out, errout, calls>>

\* Lines 80-129: one pass of the loop body.
TraverseEntry ==
    /\ pc = "traverse"
    /\ stack # <<>>
    /\ Top.phase = "loop"
    /\ \E p \in {Probes(Top.listing[Top.pos])} :
          LET f == Top
              denied == access_denied(p)
              format == Format(p.is_directory, p.is_symlink, denied, f.level)
              last == IsLastEntry(f)
              g == [f EXCEPT !.entries_count = f.entries_count + 1]
          IN  /\ err' = p.err
              /\ out' = Append(out,
                     Printf(format, f.segment, Left(last), p.entry,
                            p.canonical_path,
                            ~p.is_symlink /\ denied /\ f.level # max_depth))
              /\ peak' = Max(peak, handles + (IF p.dry THEN 1 ELSE 0))
              /\ IF ShouldRecurse(p.is_directory, p.is_symlink, denied, f.level)
                   THEN /\ stack' = Call(stack, g, p.entry, Right(last))
                        /\ calls' = Append(calls, [directory |-> p.entry,
                                                   level |-> 1 + f.level])
                   ELSE /\ stack' = SetTop(Advance(g))
                        /\ UNCHANGED calls
              /\ handles' = OpenCount(stack')
    /\ UNCHANGED <<fs, pc, status, max_depth, total_directories, total_files,
                   errout>>

\* Line 131: the call returns; in the caller the range-for moves on.
TraverseReturn ==
    /\ pc = "traverse"
    /\ stack # <<>>
    /\ Top.phase = "end"
    /\ LET rest == SubSeq(stack, 1, Len(stack) - 1)
       IN  stack' = IF rest = <<>> THEN rest
                    ELSE [rest EXCEPT ![Len(rest)] = Advance(rest[Len(rest)])]
    /\ handles' = OpenCount(stack')
    /\ UNCHANGED <<fs, pc, status, max_depth, total_directories, total_files,
                   err, out, errout, calls, peak>>

\* Lines 165-169: the summary and the exit status.
Summary ==
    /\ pc = "traverse"
    /\ stack = <<>>
    /\ out' = Append(out, [format |-> "summary", segment |-> <<>>, left |-> "",
                           name |-> 0, target |-> NoPath, marker |-> FALSE])
    /\ status' = "success"
    /\ pc' = "exit"
    /\ UNCHANGED <<fs, max_depth, total_directories, total_files, err, stack,
                   errout, calls, handles, peak>>

Next ==
    \/ Validate
    \/ ParseArgs
    \/ PrintRoot
    \/ TraverseBegin
    \/ TraverseEntry
    \/ TraverseReturn
    \/ Summary

Spec == Init /\ [][Next]_vars

\* The program is one sequential thread: it always takes its next step.
FairSpec == Spec /\ WF_vars(Next)

TypeOK ==
    /\ WellFormed(fs)
    /\ pc \in {"start", "args", "root", "traverse", "exit"}
    /\ status \in {"running", "success", "failure"}
    /\ max_depth \in 1..(MaxDepthArg + 1)
    /\ total_directories \in Nat
    /\ total_files \in Nat


(* ----------------------- what the run has shown ------------------------ *)

\* The directories traverse was invoked on.
Visited == {calls[i].directory : i \in 1..Len(calls)}

\* The positions of the entry lines in the output.
EntryLines == {i \in 1..Len(out) : out[i].format \notin {"root", "summary"}}

\* The recursion level of a node: the children of the root are at level 1.
Depth(n) == Cardinality(PathTo(fs, n)) - 1

\* The children a listing of directory d enumerates: none when the
\* directory cannot be read.
Listed(d) ==
    IF fs.kind[d] # "dir" \/ fs.denied[d] THEN {}
    ELSE {c \in Nodes \ {0} : fs.kind[c] # "none" /\ fs.parent[c] = d}

\* A child counts as a directory when it is one or is a symlink whose
\* target resolves to one; a child whose probe fails counts as a file.
DirectoryChildren(d) ==
    {c \in Listed(d) : Stat(c).err = "OK" /\ fs.kind[Stat(c).node] = "dir"}

FileChildren(d) == Listed(d) \ DirectoryChildren(d)

NumDirectoryChildren == [d \in Nodes |-> Cardinality(DirectoryChildren(d))]
NumFileChildren == [d \in Nodes |-> Cardinality(FileChildren(d))]

\* The sum of count[d] over the directories d in S.
RECURSIVE SumOver(_, _)
SumOver(S, count) ==
    IF S = {} THEN 0
    ELSE LET d == CHOOSE x \in S : TRUE
         IN  count[d] + SumOver(S \ {d}, count)

\* The plain directories rendered at exactly the depth bound.
BoundaryDirectories ==
    {out[i].name : i \in {j \in EntryLines :
        fs.kind[out[j].name] = "dir" /\ Depth(out[j].name) = max_depth}}

\* The positions of the lines rendered for the children of directory d.
LinesOf(d) == {i \in EntryLines : fs.parent[out[i].name] = d}

\* The last child a listing of its parent enumerates.
IsLastChild(n) == \A c \in Listed(fs.parent[n]) : c <= n

\* The node at level i on the way from the root to n.
AncestorAt(n, i) == CHOOSE a \in PathTo(fs, n) : Depth(a) = i

(* ------------------------------- C1 ------------------------------------ *)

\* C1: after a run that completes, total_directories and total_files are
\* the sums, over exactly the directories traverse was invoked on, of the
\* number of immediate children that count as directories and of the number
\* that count as files (a symlink by the kind of its target, a child whose
\* probe fails as a file).
C1_TotalsSumOverVisited ==
    status = "success" =>
        /\ total_directories = SumOver(Visited, NumDirectoryChildren)
        /\ total_files = SumOver(Visited, NumFileChildren)

\* A completed run that recursed, met a symlink to a directory and a
\* symlink whose probe fails.
C1_Witness ==
    /\ status = "success"
    /\ Len(calls) >= 2
    /\ \E d \in Visited : \E c \in Listed(d) :
          fs.kind[c] = "link" /\ c \in DirectoryChildren(d)
    /\ \E d \in Visited : \E c \in Listed(d) :
          fs.kind[c] = "link" /\ Stat(c).err # "OK"

(* ------------------------------- C2 ------------------------------------ *)

\* C2 as stated: a directory rendered at exactly the depth bound (rendered,
\* not expanded) still has the counts of its own children added to the
\* totals.
C2_BoundaryCountsAdded ==
    status = "success" =>
        /\ total_directories =
              SumOver(Visited \cup BoundaryDirectories, NumDirectoryChildren)
        /\ total_files =
              SumOver(Visited \cup BoundaryDirectories, NumFileChildren)

\* C2 as amended: a directory rendered at exactly the depth bound is never
\* handed to traverse, so the counts of its children are not added: the
\* totals count exactly the rendered entries, the directories among them in
\* total_directories and the others in total_files.
C2_TotalsCountRenderedEntries ==
    status = "success" =>
        /\ BoundaryDirectories \cap Visited = {}
        /\ total_directories =
              Cardinality({i \in EntryLines : out[i].format \in
                   {"directory", "access_denied", "symlink_directory"}})
        /\ total_files =
              Cardinality({i \in EntryLines : out[i].format \in
                   {"file", "symlink_file"}})

\* Depth bound 1, the root holds only a directory, which holds only a file:
\* the run ends with 1 directory and 0 files.
C2_Witness ==
    /\ status = "success"
    /\ max_depth = 1
    /\ Listed(0) = {1}
    /\ fs.kind[1] = "dir"
    /\ Listed(1) = {2}
    /\ fs.kind[2] = "file"
    /\ total_directories = 1
    /\ total_files = 0

(* ------------------------------- C3 ------------------------------------ *)

\* C3: traverse is never invoked with a level above the depth bound, no
\* rendered line belongs to an entry at a level above the bound, and after
\* the run every entry of a visited directory has exactly one line while
\* no entry at exactly the bound has been expanded.
C3_DepthBound ==
    /\ max_depth >= 1
    /\ \A i \in 1..Len(calls) :
          /\ calls[i].level <= max_depth
          /\ calls[i].level = Depth(calls[i].directory) + 1
    /\ \A i \in EntryLines : Depth(out[i].name) <= max_depth
    /\ status = "success" =>
          \A d \in Visited : \A c \in Listed(d) :
             /\ Cardinality({i \in EntryLines : out[i].name = c}) = 1
             /\ Depth(c) = max_depth => c \notin Visited

\* A completed run that rendered a readable, non-empty directory at the
\* bound after recursing at least once.
C3_Witness ==
    /\ status = "success"
    /\ max_depth >= 2
    /\ \E b \in BoundaryDirectories : Listed(b) # {}

(* ------------------------------- C4 ------------------------------------ *)

\* C4: after the run, among the lines rendered for the children of any
\* visited directory that lists at least one child there is one line per
\* child, exactly one of them carries the terminal branch glyph, every
\* other the ordinary one, and the terminal one is the last of them.
C4_OneTerminalGlyph ==
    status = "success" =>
        \A d \in Visited :
            Listed(d) # {} =>
                LET L == LinesOf(d)
                    final == CHOOSE i \in L : \A j \in L : j <= i
                IN  /\ Cardinality(L) = Cardinality(Listed(d))
                    /\ out[final].left = LastBranch
                    /\ \A i \in L \ {final} : out[i].left = MidBranch

\* A completed run over a directory with a sub-directory that was expanded
\* and a later sibling whose probe fails.
C4_Witness ==
    /\ status = "success"
    /\ \E d \in Visited :
          /\ Cardinality(Listed(d)) >= 2
          /\ \E c \in Listed(d) : c \in Visited
          /\ \E c \in Listed(d) : Stat(c).err # "OK"

(* ------------------------------- C5 ------------------------------------ *)

\* C5: every recursive call is made for a child that is a real directory
\* (not a symlink), readable, from a level strictly below the depth bound;
\* no symlink, whatever its target, is ever handed to traverse.
C5_RecursionGuard ==
    /\ \A i \in 2..Len(calls) :
          /\ fs.kind[calls[i].directory] = "dir"
          /\ ~fs.denied[calls[i].directory]
          /\ calls[i].level - 1 < max_depth
          /\ fs.parent[calls[i].directory] \in
                {calls[j].directory : j \in 1..(i - 1)}
    /\ \A n \in Visited : fs.kind[n] # "link"

\* A symlink to a directory was rendered below the depth bound, and the
\* run went on to recurse elsewhere and complete.
C5_Witness ==
    /\ status = "success"
    /\ Len(calls) >= 2
    /\ \E i \in EntryLines :
          /\ out[i].format = "symlink_directory"
          /\ Depth(out[i].name) < max_depth

(* ------------------------------- C6 ------------------------------------ *)

\* C6: a line carries the access-denied marker exactly when its entry is a
\* real directory whose own listing is refused and the entry is not at the
\* depth bound; a refused directory is never recursed into and nothing
\* below it is rendered; and after the run every readable real directory
\* listed below the bound has been recursed into, whatever error other
\* probes left behind.
C6_AccessDenied ==
    /\ \A i \in EntryLines :
          LET n == out[i].name IN
          /\ out[i].marker <=>
                (fs.kind[n] = "dir" /\ fs.denied[n] /\ Depth(n) # max_depth)
          /\ \A a \in PathTo(fs, n) \ {n} : ~fs.denied[a]
    /\ \A i \in 2..Len(calls) : ~fs.denied[calls[i].directory]
    /\ status = "success" =>
          \A d \in Visited : \A c \in Listed(d) :
              (fs.kind[c] = "dir" /\ ~fs.denied[c] /\ Depth(c) < max_depth)
                  => c \in Visited

\* A refused directory got the marker, its content stayed hidden, and a
\* readable sibling listed after it was expanded.
C6_Witness ==
    /\ status = "success"
    /\ \E i \in EntryLines, c \in Visited \ {0} :
          /\ out[i].marker
          /\ fs.parent[c] = fs.parent[out[i].name]
          /\ c > out[i].name

(* ------------------------------- C7 ------------------------------------ *)

RootIsDirectory == fs.kind[0] = "dir"

\* C7: a root that does not exist or is no directory ends the program with
\* failure after one error message, with no output, no call of traverse and
\* both totals 0; any other root gets its root line, a traversal that runs
\* to its end, the summary and status success.
C7_StartupValidation ==
    /\ ~RootIsDirectory =>
          /\ pc \in {"start", "exit"}
          /\ status # "success"
          /\ out = <<>> /\ calls = <<>> /\ stack = <<>>
          /\ total_directories = 0 /\ total_files = 0
    /\ status = "failure" =>
          /\ ~RootIsDirectory
          /\ Len(errout) = 1
    /\ RootIsDirectory =>
          /\ status # "failure"
          /\ errout = <<>>
          /\ pc \in {"traverse", "exit"} => out # <<>> /\ out[1].format = "root"
    /\ status = "success" =>
          /\ stack = <<>>
          /\ \A i \in 1..Len(out) :
                /\ out[i].format = "root" <=> i = 1
                /\ out[i].format = "summary" <=> i = Len(out)
    /\ pc = "exit" <=> status # "running"

\* Both outcomes' cases: here the failure of a root that is a file.
C7_Witness ==
    /\ status = "failure"
    /\ fs.kind[0] = "file"
    /\ errout = <<"Not a directory">>

(* ------------------------------- C8 ------------------------------------ *)

\* C8 as stated: while a recursive call is active the caller's listing
\* handle is closed, and at most one listing handle is ever open.
C8_NoHandleAcrossCall ==
    /\ \A i \in 1..Len(stack) : stack[i].phase = "call" => ~stack[i].open
    /\ peak <= 1

\* C8 as amended: the caller's listing handle stays open for the whole of
\* a recursive call; each active traverse call holds at most one handle
\* and one more is open for the time of a count or of the dry run, so the
\* number of open handles never exceeds the depth bound plus one.
C8_HandlesBoundedByDepth ==
    /\ \A i \in 1..Len(stack) : stack[i].phase = "call" => stack[i].open
    /\ handles = OpenCount(stack)
    /\ handles <= Len(stack)
    /\ handles <= peak
    /\ peak <= max_depth + 1

\* Two nested calls, each holding its listing open.
C8_Witness ==
    /\ Len(stack) >= 2
    /\ handles >= 2

(* ------------------------------- C9 ------------------------------------ *)

\* C9: on every file system, symlink cycles included, the run ends (the
\* summary or the fatal message is the last thing written), and the number
\* of traverse calls active at a time never exceeds the depth bound.
C9_Terminates ==
    /\ <>(pc = "exit")
    /\ [](Len(stack) <= max_depth)

\* A completed run that recursed on a file system holding a symlink to a
\* directory above it and a symlink to itself.
C9_Witness ==
    /\ status = "success"
    /\ Len(calls) >= 2
    /\ \E n \in Nodes :
          fs.kind[n] = "link" /\ fs.target[n] \in PathTo(fs, n) \ {n}
    /\ \E n \in Nodes : fs.kind[n] = "link" /\ fs.target[n] = n

(* ------------------------------- C10 ----------------------------------- *)

=============================================================================
